---- MODULE Spec2Model ----
(***************************************************************************)
(* Model of setup_project.py: the Folder node (name validation, path,      *)
(* directory and README creation) and the ProjectTemplate tree builder     *)
(* (create_project_tree, _check_parent_branch_exists, _add_folder_to_tree).*)
(*                                                                         *)
(* Strings are sequences of one-character strings, so that substring       *)
(* tests, '/'.join and capitalize() are computed and not assumed.          *)
(* Folder objects live in a heap (nodes); a reference is a heap index and  *)
(* None is the index 0.  The recursion of _check_parent_branch_exists is   *)
(* an explicit call stack; the explored list is one object shared by all   *)
(* frames of one top-level call.  An exception is a value: it leaves       *)
(* create_project_tree as the call's result, and inside                    *)
(* _check_parent_branch_exists it is discarded by 'finally: return'.       *)
(*                                                                         *)
(* Spec: a builder and up to MaxCalls create_project_tree calls on it.     *)
(* SpecOrder: a build, then a second builder on the same rows in another   *)
(* order.  SpecFolder: Folder objects constructed directly.  SpecLive: the  *)
(* construction as a step, then the calls, with the fairness of sequential *)
(* code (a running call takes its next step).                              *)
(*                                                                         *)
(* Two history variables serve the properties only: before (the registry,  *)
(* heap and file system at the start of the running resolution) and        *)
(* only_minimal (no call so far had minimal = False).                      *)
(*                                                                         *)
(* Scope of the inputs: templates of at most MaxRecs rows with pairwise    *)
(* distinct folder_name values, every row with a readme text, read by an   *)
(* external parser; the working directory holds only '.' at the start.     *)
(* Row names are 'root', three valid names and one reserved name.          *)
(***************************************************************************)
EXTENDS Naturals, Sequences, FiniteSets

\* ----------------------------------------------------------------- bounds
MaxRecs == 3         \* rows of a template
MaxCalls == 2        \* create_project_tree calls on one builder
MaxFolders == 2      \* Folder(...) calls made directly (SpecFolder)

\* ---------------------------------------------------------------- strings
Chr(s) == <<s>>

RECURSIVE Flatten(_)
Flatten(ss) == IF ss = <<>> THEN <<>> ELSE Head(ss) \o Flatten(Tail(ss))

\* sub in s  (Python's substring test)
Contains(sub, s) ==
    \E k \in 1..(Len(s) + 1) :
        /\ k + Len(sub) - 1 <= Len(s)
        /\ SubSeq(s, k, k + Len(sub) - 1) = sub

\* sep.join(parts)
RECURSIVE Join(_, _)
Join(sep, parts) ==
    IF parts = <<>> THEN <<>>
    ELSE IF Len(parts) = 1 THEN parts[1]
    ELSE parts[1] \o sep \o Join(sep, Tail(parts))

RECURSIVE Reverse(_)
Reverse(s) == IF s = <<>> THEN <<>> ELSE Append(Reverse(Tail(s)), Head(s))

Upper(c) ==
    CASE c = "a" -> "A" [] c = "b" -> "B" [] c = "r" -> "R"
      [] c = "o" -> "O" [] c = "t" -> "T" [] c = "c" -> "C" [] OTHER -> c

Lower(c) ==
    CASE c = "A" -> "a" [] c = "B" -> "b" [] c = "C" -> "c" [] c = "O" -> "o"
      [] c = "N" -> "n" [] c = "M" -> "m" [] c = "R" -> "r" [] c = "T" -> "t"
      [] OTHER -> c

\* str.capitalize(): first character upper case, the rest lower case
Capitalize(s) ==
    IF s = <<>> THEN <<>>
    ELSE <<Upper(s[1])>> \o [k \in 1..(Len(s) - 1) |-> Lower(s[k + 1])]

\* ------------------------------------------------------------ Folder names
reserved_chars == <<"<", ">", ":", "\"", "/", "\\", "|", "?", "*">>

Digits == <<"1", "2", "3", "4", "5", "6", "7", "8", "9">>

reserved_names ==
    <<  <<"C", "O", "N">>, <<"P", "R", "N">>, <<"A", "U", "X">>  >>
    \o [k \in 1..9 |-> <<"C", "O", "M", Digits[k]>>]
    \o [k \in 1..9 |-> <<"L", "P", "T", Digits[k]>>]

HasReservedChar(folder_name) ==
    \E k \in 1..Len(reserved_chars) : Contains(Chr(reserved_chars[k]), folder_name)

HasReservedName(folder_name) ==
    \E k \in 1..Len(reserved_names) : Contains(reserved_names[k], folder_name)

ValidName(folder_name) ==
    ~HasReservedChar(folder_name) /\ ~HasReservedName(folder_name)

\* --------------------------------------------------------------- constants
None == 0
Unset == <<"<", "unset", ">">>         \* the attribute folder_name was never assigned
NoText == "None"
RootKey == <<"r", "o", "o", "t">>
RootMark == <<".">>
NameA == <<"a">>
NameB == <<"b">>
NameC == <<"c">>
NameCON == <<"C", "O", "N">>

Names == {RootKey, NameA, NameB, NameC, NameCON}
ReadmeTexts == {"txt"}

DistinctNames(t) ==
    \A j, k \in 1..Len(t) : t[j].folder_name = t[k].folder_name => j = k

\* a, b and c differ in nothing but their spelling: a template uses them in
\* this order (b only after a, c only after b), as folder_name values
FirstUse(ns) ==
    \A j \in 1..Len(ns) :
        /\ ns[j] = NameB => \E k \in 1..(j - 1) : ns[k] = NameA
        /\ ns[j] = NameC => \E k \in 1..(j - 1) : ns[k] = NameB

\* the folder_name column of a template of n rows
NameColumns(n) ==
    {ns \in [1..n -> Names] :
        /\ \A j, k \in 1..n : ns[j] = ns[k] => j = k
        /\ FirstUse(ns)}

\* the rows made of the columns folder_name, parent, readme_text, minimal
Rows(ns, ps, ts, ms) ==
    [k \in 1..Len(ns) |->
        [folder_name |-> ns[k], parent |-> ps[k], readme_text |-> ts[k],
         minimal |-> ms[k]]]

\* -------------------------------------------------------------------- state
VARIABLES
    has_df,            \* the attribute _df exists (the template file was found)
    df,                \* the rows of the template, in file order
    folder_tree,       \* _folder_tree: key -> reference to a Folder
    nodes,             \* heap of Folder objects; a reference is an index
    dirs,              \* directories that exist under the working directory
    files,             \* README files that exist
    out,               \* messages printed since the current call started
    pc,                \* "idle" | "loop" | "check" | "ret"
    minimal,           \* argument of the running create_project_tree call
    i,                 \* loop index of create_project_tree (1-based)
    creation_success,  \* local of create_project_tree
    stack,             \* frames of _check_parent_branch_exists, innermost last
    explored,          \* the explored list shared by the frames
    retval,            \* value returned by the frame that just returned
    result,            \* outcome of the last finished call
    calls,             \* number of create_project_tree calls started
    last,              \* the last Folder(...) construction: arguments and effect
    saved,             \* outcome of the build on the other row order (SpecOrder)
    before,            \* registry, heap and file system when the running top-level
                       \* resolution started
    only_minimal       \* every create_project_tree call so far had minimal = True

vars == <<has_df, df, folder_tree, nodes, dirs, files, out, pc, minimal, i,
          creation_success, stack, explored, retval, result, calls, last, saved,
          before, only_minimal>>

NoLast == [seq |-> 0, folder_name |-> <<>>, parent |-> None, readme_text |-> NoText,
           ref |-> None, exc |-> "none", dirs |-> {}, files |-> {}]
NoRun == [result |-> "none", minimal |-> FALSE, paths |-> <<>>]
NoSnap == [tree |-> <<>>, nodes |-> <<>>, dirs |-> {}, files |-> {}]

Msg(kind, name) == [msg |-> kind, name |-> name]

\* ------------------------------------------------------------------- Folder
\* Folder.folder_path of an object n whose parent chain lives in heap h.
\* Reading folder_name of an object that never assigned it raises
\* AttributeError: PathRaises.
RECURSIVE PathRaises(_, _)
PathRaises(h, n) ==
    IF n.folder_name = Unset THEN TRUE
    ELSE IF n.parent = None THEN FALSE
    ELSE PathRaises(h, h[n.parent])

\* the list 'path' before path.reverse(): own name first, root last
RECURSIVE PathUp(_, _)
PathUp(h, n) ==
    IF n.parent = None THEN <<n.folder_name>>
    ELSE <<n.folder_name>> \o PathUp(h, h[n.parent])

\* the join without path.reverse()
folder_path_NoReverse(h, n) == Join(Chr("/"), PathUp(h, n))

folder_path(h, n) == Join(Chr("/"), Reverse(PathUp(h, n)))

DirName(p, leaf) == SubSeq(p, 1, Len(p) - Len(leaf) - 1)

ReadmeFile(h, n) ==
    Flatten(<<folder_path(h, n), Chr("/"), <<"README_">>,
              Capitalize(n.folder_name), <<".md">>>>)

\* Folder.create_folder on object n: [exc, dirs, files, out]
create_folder(h, n, d, f) ==
    IF PathRaises(h, n)
    THEN [exc |-> "AttributeError", dirs |-> d, files |-> f, out |-> <<>>]
    ELSE LET p == folder_path(h, n)
             exists == p \in d
         IN  IF ~exists /\ DirName(p, n.folder_name) \notin d
             THEN [exc |-> "FileNotFoundError", dirs |-> d, files |-> f, out |-> <<>>]
             ELSE [exc |-> "none",
                   dirs |-> d \cup {p},
                   files |-> IF n.readme_text = NoText THEN f
                             ELSE f \cup {ReadmeFile(h, n)},
                   out |-> IF exists THEN <<Msg("file_exists", n.folder_name)>>
                           ELSE <<>>]

\* Folder.__init__ without the two reserved-name tests
FolderInit_NoValidation(h, folder_name, parent, readme_text, d, f) ==
    LET n == [folder_name |-> IF parent = None THEN RootMark ELSE folder_name,
              parent |-> parent, readme_text |-> readme_text]
    IN  IF parent = None
        THEN [exc |-> "none", node |-> n, dirs |-> d, files |-> f, out |-> <<>>]
        ELSE LET c == create_folder(h, n, d, f)
             IN  [exc |-> c.exc, node |-> n, dirs |-> c.dirs,
                  files |-> c.files, out |-> c.out]

\* Folder.__init__: [exc, node, dirs, files, out]
FolderInit(h, folder_name, parent, readme_text, d, f) ==
    IF HasReservedChar(folder_name) \/ HasReservedName(folder_name)
    THEN \* err.args is a tuple, never equal to a string: the last branch prints
         [exc |-> "none",
          node |-> [folder_name |-> Unset, parent |-> parent, readme_text |-> readme_text],
          dirs |-> d, files |-> f,
          out |-> <<Msg("other_error", folder_name)>>]
    ELSE LET n == [folder_name |-> IF parent = None THEN RootMark ELSE folder_name,
                   parent |-> parent, readme_text |-> readme_text]
         IN  IF parent = None
             THEN [exc |-> "none", node |-> n, dirs |-> d, files |-> f, out |-> <<>>]
             ELSE LET c == create_folder(h, n, d, f)
                  IN  [exc |-> c.exc, node |-> n, dirs |-> c.dirs,
                       files |-> c.files, out |-> c.out]

\* ---------------------------------------------------------- ProjectTemplate
\* the Folder('root', None, None) of ProjectTemplate.__init__
RootNode == FolderInit(<<>>, RootKey, None, NoText, {RootMark}, {}).node

\* (self._df['folder_name']).to_list()
names == [k \in 1..Len(df) |-> df[k].folder_name]

InList(x, l) == \E k \in 1..Len(l) : l[k] = x

\* names.index(parent): the first row with that folder_name
IndexOf(x) == CHOOSE k \in 1..Len(df) :
                  /\ df[k].folder_name = x
                  /\ \A j \in 1..(k - 1) : df[j].folder_name # x

\* the test of lines 88 and 138 always passed
Candidate_Always(m, index) == TRUE

\* the test of line 88 without 'not minimal or'
Candidate_MinimalOnly(m, index) == df[index].minimal

\* not minimal or (self._df.at[index, 'minimal'] and minimal)
Candidate(m, index) == ~m \/ (df[index].minimal /\ m)

Put(t, key, ref) == [k \in (DOMAIN t) \cup {key} |-> IF k = key THEN ref ELSE t[k]]

\* n_folders
n_folders == Cardinality(DOMAIN folder_tree)

\* _add_folder_to_tree with a parent that is not registered replaced by the
\* root entry (a lookup with a default instead of self._folder_tree[...])
AddFolder_DefaultsToRoot(df_index) ==
    LET name == df[df_index].folder_name
        parent == IF df[df_index].parent \in DOMAIN folder_tree
                  THEN df[df_index].parent ELSE RootKey
        text == df[df_index].readme_text
        F == FolderInit(nodes, name, folder_tree[parent], text, dirs, files)
        l == [seq |-> last.seq + 1,
              folder_name |-> name, parent |-> folder_tree[parent],
              readme_text |-> text, exc |-> F.exc,
              ref |-> IF F.exc = "none" THEN Len(nodes) + 1 ELSE None,
              dirs |-> dirs, files |-> files]
    IN  IF F.exc # "none"
        THEN [exc |-> F.exc, tree |-> folder_tree, nodes |-> nodes, dirs |-> dirs,
              files |-> files, out |-> <<>>, last |-> l]
        ELSE [exc |-> "none",
              tree |-> Put(folder_tree, name, Len(nodes) + 1),
              nodes |-> Append(nodes, F.node),
              dirs |-> F.dirs, files |-> F.files, out |-> F.out, last |-> l]

\* _add_folder_to_tree(df_index): [exc, tree, nodes, dirs, files, out, last].
\* The right-hand side is evaluated first: a KeyError of the parent lookup or
\* an exception of the constructor leaves the registry as it was.
AddFolder(df_index) ==
    LET name == df[df_index].folder_name
        parent == df[df_index].parent
        text == df[df_index].readme_text
        same(e, l) == [exc |-> e, tree |-> folder_tree, nodes |-> nodes, dirs |-> dirs,
                       files |-> files, out |-> <<>>, last |-> l]
    IN  IF parent \notin DOMAIN folder_tree
        THEN same("KeyError", last)
        ELSE LET F == FolderInit(nodes, name, folder_tree[parent], text, dirs, files)
                 l == [seq |-> last.seq + 1,
                       folder_name |-> name, parent |-> folder_tree[parent],
                       readme_text |-> text, exc |-> F.exc,
                       ref |-> IF F.exc = "none" THEN Len(nodes) + 1 ELSE None,
                       dirs |-> dirs, files |-> files]
             IN  IF F.exc # "none"
                 THEN same(F.exc, l)
                 ELSE [exc |-> "none",
                       tree |-> Put(folder_tree, name, Len(nodes) + 1),
                       nodes |-> Append(nodes, F.node),
                       dirs |-> F.dirs, files |-> F.files, out |-> F.out, last |-> l]

\* ProjectTemplate.__init__ on a template file that exists (any template of
\* the scope) or does not exist
Init ==
    /\ has_df \in BOOLEAN
    /\ IF has_df
       THEN \E n \in 0..MaxRecs :
                \E ns \in NameColumns(n), ps \in [1..n -> Names],
                   ts \in [1..n -> ReadmeTexts], ms \in [1..n -> BOOLEAN] :
                    df = Rows(ns, ps, ts, ms)
       ELSE df = <<>>
    /\ folder_tree = [k \in {RootKey} |-> 1]
    /\ nodes = <<RootNode>>
    /\ dirs = {RootMark}
    /\ files = {}
    /\ out = IF has_df THEN <<>> ELSE <<Msg("file_not_found", <<>>)>>
    /\ pc = "idle"
    /\ minimal = FALSE
    /\ i = 1
    /\ creation_success = TRUE
    /\ stack = <<>>
    /\ explored = <<>>
    /\ retval = TRUE
    /\ result = "none"
    /\ calls = 0
    /\ last = NoLast
    /\ saved = NoRun
    /\ before = NoSnap
    /\ only_minimal = TRUE

Top == stack[Len(stack)]
Pop == SubSeq(stack, 1, Len(stack) - 1)
Frame(parent) == [parent |-> parent, index |-> 0]

\* what a resolution could change: registry, heap, directories, files
Snap == [tree |-> folder_tree, nodes |-> nodes, dirs |-> dirs, files |-> files]

\* the call on a builder without _df taken as a call on an empty template
Call_MissingAsEmpty(m) ==
    /\ pc = "idle"
    /\ calls < MaxCalls
    /\ calls' = calls + 1
    /\ minimal' = m
    /\ out' = <<>>
    /\ creation_success' = TRUE
    /\ i' = 1
    /\ stack' = <<>>
    /\ explored' = <<>>
    /\ pc' = "loop"
    /\ result' = "none"
    /\ only_minimal' = (only_minimal /\ m)
    /\ UNCHANGED <<has_df, df, folder_tree, nodes, dirs, files, retval, last, saved,
                   before>>

\* create_project_tree(minimal) is called; without _df line 86 raises
Call(m) ==
    /\ pc = "idle"
    /\ calls < MaxCalls
    /\ calls' = calls + 1
    /\ minimal' = m
    /\ out' = <<>>
    /\ creation_success' = TRUE
    /\ i' = 1
    /\ stack' = <<>>
    /\ explored' = <<>>
    /\ IF has_df
       THEN pc' = "loop" /\ result' = "none"
       ELSE pc' = "idle" /\ result' = "AttributeError"
    /\ only_minimal' = (only_minimal /\ m)
    /\ UNCHANGED <<has_df, df, folder_tree, nodes, dirs, files, retval, last, saved,
                   before>>

\* line 88: the row is not part of the minimal tree
LoopSkip ==
    /\ pc = "loop"
    /\ i <= Len(df)
    /\ ~Candidate(minimal, i)
    /\ i' = i + 1
    /\ UNCHANGED <<has_df, df, folder_tree, nodes, dirs, files, out, pc, minimal,
                   creation_success, stack, explored, retval, result, calls, last, saved,
                   before, only_minimal>>

\* line 89 with one explored list kept for all candidates of a call
LoopResolve_SharedExplored ==
    /\ pc = "loop"
    /\ i <= Len(df)
    /\ Candidate(minimal, i)
    /\ stack' = <<Frame(df[i].parent)>>
    /\ explored' = Append(explored, df[i].folder_name)
    /\ pc' = "check"
    /\ before' = Snap
    /\ UNCHANGED <<has_df, df, folder_tree, nodes, dirs, files, out, minimal, i,
                   creation_success, retval, result, calls, last, saved,
                   only_minimal>>

\* line 89: the call _check_parent_branch_exists(minimal, parent, [folder_name])
LoopResolve ==
    /\ pc = "loop"
    /\ i <= Len(df)
    /\ Candidate(minimal, i)
    /\ stack' = <<Frame(df[i].parent)>>
    /\ explored' = <<df[i].folder_name>>
    /\ pc' = "check"
    /\ before' = Snap
    /\ UNCHANGED <<has_df, df, folder_tree, nodes, dirs, files, out, minimal, i,
                   creation_success, retval, result, calls, last, saved,
                   only_minimal>>

\* the failed resolution without the break of line 94
LoopAbort_Continues ==
    /\ pc = "ret"
    /\ stack = <<>>
    /\ ~retval
    /\ creation_success' = FALSE
    /\ pc' = "loop"
    /\ i' = i + 1
    /\ UNCHANGED <<has_df, df, folder_tree, nodes, dirs, files, out, minimal,
                   stack, explored, retval, result, calls, last, saved,
                   before, only_minimal>>

\* lines 93, 94, 97: the resolution failed
LoopAbort ==
    /\ pc = "ret"
    /\ stack = <<>>
    /\ ~retval
    /\ creation_success' = FALSE
    /\ pc' = "idle"
    /\ result' = "False"
    /\ UNCHANGED <<has_df, df, folder_tree, nodes, dirs, files, out, minimal, i,
                   stack, explored, retval, calls, last, saved,
                   before, only_minimal>>

\* line 96: the resolution succeeded; an exception of _add_folder_to_tree
\* leaves create_project_tree
LoopAdd ==
    /\ pc = "ret"
    /\ stack = <<>>
    /\ retval
    /\ LET A == AddFolder(i)
       IN  /\ folder_tree' = A.tree
           /\ nodes' = A.nodes
           /\ dirs' = A.dirs
           /\ files' = A.files
           /\ out' = out \o A.out
           /\ last' = A.last
           /\ IF A.exc = "none"
              THEN pc' = "loop" /\ i' = i + 1 /\ result' = result
              ELSE pc' = "idle" /\ i' = i /\ result' = A.exc
    /\ UNCHANGED <<has_df, df, minimal, creation_success, stack, explored, retval,
                   calls, saved, before, only_minimal>>

\* lines 86, 97: the loop is over
LoopEnd ==
    /\ pc = "loop"
    /\ i > Len(df)
    /\ pc' = "idle"
    /\ result' = IF creation_success THEN "True" ELSE "False"
    /\ UNCHANGED <<has_df, df, folder_tree, nodes, dirs, files, out, minimal, i,
                   creation_success, stack, explored, retval, calls, last, saved,
                   before, only_minimal>>

Return(v) ==
    /\ stack' = Pop
    /\ retval' = v
    /\ pc' = "ret"

\* lines 119, 150-157: the parent is a key of the registry
CheckInDict ==
    /\ pc = "check"
    /\ Top.parent \in DOMAIN folder_tree
    /\ Return(TRUE)
    /\ UNCHANGED <<has_df, df, folder_tree, nodes, dirs, files, out, minimal, i,
                   creation_success, explored, result, calls, last, saved,
                   before, only_minimal>>

\* lines 125-127: no row has that name
CheckNotInTemplate ==
    /\ pc = "check"
    /\ Top.parent \notin DOMAIN folder_tree
    /\ ~InList(Top.parent, names)
    /\ out' = Append(out, Msg("parent_not_in_template", Top.parent))
    /\ Return(FALSE)
    /\ UNCHANGED <<has_df, df, folder_tree, nodes, dirs, files, minimal, i,
                   creation_success, explored, result, calls, last, saved,
                   before, only_minimal>>

\* the circular branch without 'in_dict_flag = False' (line 131)
CheckCircular_ReturnsTrue ==
    /\ pc = "check"
    /\ Top.parent \notin DOMAIN folder_tree
    /\ InList(Top.parent, names)
    /\ InList(Top.parent, explored)
    /\ out' = Append(out, Msg("circular_reference", Top.parent))
    /\ Return(TRUE)
    /\ UNCHANGED <<has_df, df, folder_tree, nodes, dirs, files, minimal, i,
                   creation_success, explored, result, calls, last, saved,
                   before, only_minimal>>

\* lines 128-131 left out: an explored name is explored again (lines 134-142)
CheckCircular_Recurses ==
    /\ pc = "check"
    /\ Top.parent \notin DOMAIN folder_tree
    /\ InList(Top.parent, names)
    /\ InList(Top.parent, explored)
    /\ Candidate(minimal, IndexOf(Top.parent))
    /\ explored' = Append(explored, Top.parent)
    /\ stack' = Append(Pop, [Top EXCEPT !.index = IndexOf(Top.parent)])
                  \o <<Frame(df[IndexOf(Top.parent)].parent)>>
    /\ pc' = "check"
    /\ UNCHANGED <<has_df, df, folder_tree, nodes, dirs, files, out, minimal, i,
                   creation_success, retval, result, calls, last, saved,
                   before, only_minimal>>

\* lines 128-131: the name was explored before in this resolution
CheckCircular ==
    /\ pc = "check"
    /\ Top.parent \notin DOMAIN folder_tree
    /\ InList(Top.parent, names)
    /\ InList(Top.parent, explored)
    /\ out' = Append(out, Msg("circular_reference", Top.parent))
    /\ Return(FALSE)
    /\ UNCHANGED <<has_df, df, folder_tree, nodes, dirs, files, minimal, i,
                   creation_success, explored, result, calls, last, saved,
                   before, only_minimal>>

\* lines 134-138, 146-149: the parent's row is not in the minimal tree
CheckMinimalExcluded ==
    /\ pc = "check"
    /\ Top.parent \notin DOMAIN folder_tree
    /\ InList(Top.parent, names)
    /\ ~InList(Top.parent, explored)
    /\ ~Candidate(minimal, IndexOf(Top.parent))
    /\ explored' = Append(explored, Top.parent)
    /\ out' = Append(out, Msg("not_in_minimal_template", Top.parent))
    /\ Return(FALSE)
    /\ UNCHANGED <<has_df, df, folder_tree, nodes, dirs, files, minimal, i,
                   creation_success, result, calls, last, saved,
                   before, only_minimal>>

\* lines 134-142: the recursive call on the parent's own parent
CheckRecurse ==
    /\ pc = "check"
    /\ Top.parent \notin DOMAIN folder_tree
    /\ InList(Top.parent, names)
    /\ ~InList(Top.parent, explored)
    /\ Candidate(minimal, IndexOf(Top.parent))
    /\ explored' = Append(explored, Top.parent)
    /\ stack' = Append(Pop, [Top EXCEPT !.index = IndexOf(Top.parent)])
                  \o <<Frame(df[IndexOf(Top.parent)].parent)>>
    /\ pc' = "check"
    /\ UNCHANGED <<has_df, df, folder_tree, nodes, dirs, files, out, minimal, i,
                   creation_success, retval, result, calls, last, saved,
                   before, only_minimal>>

\* the failed recursive call without 'in_dict_flag = False' (line 143)
CheckPropagate_ReturnsTrue ==
    /\ pc = "ret"
    /\ stack # <<>>
    /\ ~retval
    /\ Return(TRUE)
    /\ UNCHANGED <<has_df, df, folder_tree, nodes, dirs, files, out, minimal, i,
                   creation_success, explored, result, calls, last, saved,
                   before, only_minimal>>

\* lines 142-143, 157: the recursive call failed
CheckPropagate ==
    /\ pc = "ret"
    /\ stack # <<>>
    /\ ~retval
    /\ Return(FALSE)
    /\ UNCHANGED <<has_df, df, folder_tree, nodes, dirs, files, out, minimal, i,
                   creation_success, explored, result, calls, last, saved,
                   before, only_minimal>>

\* lines 144-145 with an exception of the addition turned into a False result
CheckAddParent_FailsOnError ==
    /\ pc = "ret"
    /\ stack # <<>>
    /\ retval
    /\ LET A == AddFolder(Top.index)
       IN  /\ folder_tree' = A.tree
           /\ nodes' = A.nodes
           /\ dirs' = A.dirs
           /\ files' = A.files
           /\ out' = out \o A.out
           /\ last' = A.last
           /\ Return(A.exc = "none")
    /\ UNCHANGED <<has_df, df, minimal, i, creation_success, explored, result,
                   calls, saved, before, only_minimal>>

\* lines 144-145, 157: the recursive call succeeded and the parent is added;
\* 'finally: return in_dict_flag' discards an exception of the addition
CheckAddParent ==
    /\ pc = "ret"
    /\ stack # <<>>
    /\ retval
    /\ LET A == AddFolder(Top.index)
       IN  /\ folder_tree' = A.tree
           /\ nodes' = A.nodes
           /\ dirs' = A.dirs
           /\ files' = A.files
           /\ out' = out \o A.out
           /\ last' = A.last
    /\ Return(TRUE)
    /\ UNCHANGED <<has_df, df, minimal, i, creation_success, explored, result,
                   calls, saved, before, only_minimal>>

Next ==
    \/ \E m \in BOOLEAN : Call(m)
    \/ LoopSkip
    \/ LoopResolve
    \/ LoopAbort
    \/ LoopAdd
    \/ LoopEnd
    \/ CheckInDict
    \/ CheckNotInTemplate
    \/ CheckCircular
    \/ CheckMinimalExcluded
    \/ CheckRecurse
    \/ CheckPropagate
    \/ CheckAddParent

Spec == Init /\ [][Next]_vars

\* the steps of a running create_project_tree call that add no folder
RunCheck ==
    \/ LoopSkip
    \/ LoopResolve
    \/ LoopAbort
    \/ LoopEnd
    \/ CheckInDict
    \/ CheckNotInTemplate
    \/ CheckCircular
    \/ CheckMinimalExcluded
    \/ CheckRecurse
    \/ CheckPropagate

\* the steps that call _add_folder_to_tree (lines 96 and 145); one of them is
\* enabled exactly when a resolution has returned True
RunAdd == LoopAdd \/ CheckAddParent

AddEnabled == pc = "ret" /\ retval

Run == RunCheck \/ RunAdd

\* before ProjectTemplate(template_file) is evaluated
InitLive ==
    /\ has_df = FALSE
    /\ df = <<>>
    /\ folder_tree = <<>>
    /\ nodes = <<>>
    /\ dirs = {RootMark}
    /\ files = {}
    /\ out = <<>>
    /\ pc = "new"
    /\ minimal = FALSE
    /\ i = 1
    /\ creation_success = TRUE
    /\ stack = <<>>
    /\ explored = <<>>
    /\ retval = TRUE
    /\ result = "none"
    /\ calls = 0
    /\ last = NoLast
    /\ saved = NoRun
    /\ before = NoSnap
    /\ only_minimal = TRUE

\* ProjectTemplate.__init__ as a step: the file is missing, or it holds any
\* template of the scope
Construct ==
    /\ pc = "new"
    /\ pc' = "idle"
    /\ has_df' \in BOOLEAN
    /\ IF has_df'
       THEN \E n \in 0..MaxRecs :
                \E ns \in NameColumns(n), ps \in [1..n -> Names],
                   ts \in [1..n -> ReadmeTexts], ms \in [1..n -> BOOLEAN] :
                    df' = Rows(ns, ps, ts, ms)
       ELSE df' = <<>>
    /\ folder_tree' = [k \in {RootKey} |-> 1]
    /\ nodes' = <<RootNode>>
    /\ out' = IF has_df' THEN <<>> ELSE <<Msg("file_not_found", <<>>)>>
    /\ UNCHANGED <<dirs, files, minimal, i, creation_success, stack, explored,
                   retval, result, calls, last, saved, before, only_minimal>>

NextLive ==
    \/ Construct
    \/ \E m \in BOOLEAN : Call(m)
    \/ Run

\* the code is sequential and synchronous: a call that has a next step takes
\* it.  Weak fairness of RunAdd is written out with AddEnabled as its
\* enabling condition.
SpecLive ==
    /\ InitLive
    /\ [][NextLive]_vars
    /\ WF_vars(RunCheck)
    /\ ([]<>~AddEnabled \/ []<><<RunAdd>>_vars)

\* ------------------------------------------------- Folder, constructed alone
\* names for direct constructions: valid ones, ones with a reserved
\* character, ones containing a reserved device name
FolderNames ==
    { NameA, NameB, RootKey, <<"c", "o", "n">>, <<"C", "O">>, <<"a", " ", "b">>,
      <<"C", "O", "M", "0">>,
      <<"a", ":">>, <<"a", "/", "b">>, <<"*">>,
      NameCON, <<"x", "C", "O", "N", "y">>, <<"L", "P", "T", "1">>,
      <<"C", "O", "M", "9">> }

InitFolder ==
    /\ has_df = FALSE
    /\ df = <<>>
    /\ folder_tree = <<>>
    /\ nodes = <<>>
    /\ dirs = {RootMark}
    /\ files = {}
    /\ out = <<>>
    /\ pc = "idle"
    /\ minimal = FALSE
    /\ i = 1
    /\ creation_success = TRUE
    /\ stack = <<>>
    /\ explored = <<>>
    /\ retval = TRUE
    /\ result = "none"
    /\ calls = 0
    /\ last = NoLast
    /\ saved = NoRun
    /\ before = NoSnap
    /\ only_minimal = TRUE

\* Folder(folder_name, parent, readme_text) with parent None or an object
\* constructed before; an exception leaves no object behind
NewFolder(folder_name, parent, readme_text) ==
    /\ last.seq < MaxFolders
    /\ LET F == FolderInit(nodes, folder_name, parent, readme_text, dirs, files)
       IN  /\ nodes' = IF F.exc = "none" THEN Append(nodes, F.node) ELSE nodes
           /\ dirs' = IF F.exc = "none" THEN F.dirs ELSE dirs
           /\ files' = IF F.exc = "none" THEN F.files ELSE files
           /\ out' = F.out
           /\ last' = [seq |-> last.seq + 1, folder_name |-> folder_name,
                       parent |-> parent, readme_text |-> readme_text,
                       exc |-> F.exc,
                       ref |-> IF F.exc = "none" THEN Len(nodes) + 1 ELSE None,
                       dirs |-> dirs, files |-> files]
    /\ UNCHANGED <<has_df, df, folder_tree, pc, minimal, i, creation_success, stack,
                   explored, retval, result, calls, saved,
                   before, only_minimal>>

NextFolder ==
    \E folder_name \in FolderNames, parent \in 0..Len(nodes),
       readme_text \in {NoText, "txt"} :
        NewFolder(folder_name, parent, readme_text)

SpecFolder == InitFolder /\ [][NextFolder]_vars

\* ------------------------------------------- the same rows in another order
\* key -> folder_path of the registered Folder ("AttributeError" where the
\* property raises)
TreePaths ==
    [key \in DOMAIN folder_tree |->
        IF PathRaises(nodes, nodes[folder_tree[key]]) THEN <<"AttributeError">>
        ELSE folder_path(nodes, nodes[folder_tree[key]])]

Reorderings(t) ==
    {[k \in 1..Len(t) |-> t[p[k]]] :
        p \in {q \in [1..Len(t) -> 1..Len(t)] :
                  \A j, k \in 1..Len(t) : q[j] = q[k] => j = k}}

\* the first build is over: its outcome is kept, and a new ProjectTemplate is
\* constructed in an empty working directory on the same rows in another order
Reorder ==
    /\ pc = "idle"
    /\ calls = 1
    /\ has_df
    /\ saved = NoRun
    /\ saved' = [result |-> result, minimal |-> minimal, paths |-> TreePaths]
    /\ df' \in Reorderings(df) \ {df}
    /\ folder_tree' = [k \in {RootKey} |-> 1]
    /\ nodes' = <<RootNode>>
    /\ dirs' = {RootMark}
    /\ files' = {}
    /\ out' = <<>>
    /\ i' = 1
    /\ creation_success' = TRUE
    /\ stack' = <<>>
    /\ explored' = <<>>
    /\ retval' = TRUE
    /\ result' = "none"
    /\ calls' = 0
    /\ last' = NoLast
    /\ before' = NoSnap
    /\ only_minimal' = TRUE
    /\ UNCHANGED <<has_df, pc, minimal>>

\* one call per builder, the second builder with the first one's argument
CallOnce(m) ==
    /\ calls = 0
    /\ saved # NoRun => m = saved.minimal
    /\ Call(m)

NextOrder ==
    \/ \E m \in BOOLEAN : CallOnce(m)
    \/ Reorder
    \/ LoopSkip
    \/ LoopResolve
    \/ LoopAbort
    \/ LoopAdd
    \/ LoopEnd
    \/ CheckInDict
    \/ CheckNotInTemplate
    \/ CheckCircular
    \/ CheckMinimalExcluded
    \/ CheckRecurse
    \/ CheckPropagate
    \/ CheckAddParent

SpecOrder == Init /\ [][NextOrder]_vars

\* ------------------------------------------------------------------ helpers
\* a create_project_tree call has returned or raised
Finished == pc = "idle" /\ calls > 0

\* the only call so far, on the builder as constructed
FirstFinished == Finished /\ calls = 1

Printed(kind) == \E k \in 1..Len(out) : out[k].msg = kind

RowNamed(t, x) == \E k \in 1..Len(t) : t[k].folder_name = x

RowOf(t, x) == CHOOSE k \in 1..Len(t) : t[k].folder_name = x

\* following parent names from x through the rows comes back to a name of seen
RECURSIVE ChainRevisits(_, _, _)
ChainRevisits(t, x, seen) ==
    IF x \in seen THEN TRUE
    ELSE IF ~RowNamed(t, x) THEN FALSE
    ELSE ChainRevisits(t, t[RowOf(t, x)].parent, seen \cup {x})

CircularRow(t, k) == ChainRevisits(t, t[k].parent, {t[k].folder_name})

\* the names on the parent chain of row k, its own name included
RECURSIVE ChainNames(_, _, _)
ChainNames(t, x, seen) ==
    IF x \in seen \/ ~RowNamed(t, x) THEN seen
    ELSE ChainNames(t, t[RowOf(t, x)].parent, seen \cup {x})

OnChain(t, key, k) == key \in ChainNames(t, t[k].parent, {t[k].folder_name})

NoCycles(t) == \A k \in 1..Len(t) : ~CircularRow(t, k)

ParentsDefined(t) ==
    \A k \in 1..Len(t) : t[k].parent = RootKey \/ RowNamed(t, t[k].parent)

AllValid(t) == \A k \in 1..Len(t) : ValidName(t[k].folder_name)

WellFormed(t) == NoCycles(t) /\ ParentsDefined(t) /\ AllValid(t) /\ DistinctNames(t)

\* row k is registered as a Folder that was constructed under its own name
Materialized(k) ==
    /\ df[k].folder_name \in DOMAIN folder_tree
    /\ nodes[folder_tree[df[k].folder_name]].folder_name = df[k].folder_name

\* a resolution that failed with the message kind, on its way out or returned
Failing(kind) ==
    /\ out # <<>>
    /\ out[Len(out)].msg = kind
    /\ \/ pc = "ret" /\ ~retval
       \/ pc = "idle" /\ result = "False"

C2_CircularAlwaysReported ==
    (FirstFinished /\ has_df
        /\ \E k \in 1..Len(df) : Candidate(minimal, k) /\ CircularRow(df, k))
        => (result = "False" /\ Printed("circular_reference"))

\* C2 amended: whenever a resolution reaches a parent name that is not
\* registered, names a row and is already in the explored list, it reports a
\* circular reference, every enclosing frame returns False and the build
\* returns False.
C2_CircularAborts ==
    [][((pc = "check" /\ Top.parent \notin DOMAIN folder_tree
            /\ InList(Top.parent, names) /\ InList(Top.parent, explored))
        \/ (pc = "ret" /\ Failing("circular_reference")))
       => Failing("circular_reference")']_vars

C2_Witness ==
    /\ Finished /\ result = "False"
    /\ Failing("circular_reference")
    /\ Len(explored) = 3
    /\ out[Len(out)].name = explored[1]

\* ----------------------------------------------------------------------- C3
\* C3: a minimal build in which a candidate's parent row has minimal = False
\* returns False.
C3_MinimalParentExcluded ==
    (Finished /\ has_df /\ minimal
        /\ \E k \in 1..Len(df) :
              /\ df[k].minimal
              /\ RowNamed(df, df[k].parent)
              /\ ~df[RowOf(df, df[k].parent)].minimal)
        => result = "False"

\* ----------------------------------------------------------------------- C4
\* C4: whenever a resolution reaches a parent name that is neither a key of the
\* registry nor the folder_name of a row, the resolution fails in every
\* enclosing frame and create_project_tree returns False.
C4_MissingParentAborts ==
    [][((pc = "check" /\ Top.parent \notin DOMAIN folder_tree
            /\ ~InList(Top.parent, names))
        \/ (pc = "ret" /\ Failing("parent_not_in_template")))
       => Failing("parent_not_in_template")']_vars

C4_Witness ==
    /\ Finished /\ result = "False"
    /\ Failing("parent_not_in_template")
    /\ Len(explored) = 2
    /\ i = 2
    /\ Cardinality(DOMAIN folder_tree) = 2

\* ----------------------------------------------------------------------- C5
\* C5: a fresh builder on the same rows in another order returns the same
\* result and, when the build succeeds, registers the same keys with the same
\* folder_path.
C5_OrderIndependent ==
    (pc = "idle" /\ calls = 1 /\ saved # NoRun)
        => /\ result = saved.result
           /\ result = "True" => TreePaths = saved.paths

\* ----------------------------------------------------------------------- C6
\* C6: no folder name is materialized twice: the heap never holds two Folder
\* objects constructed under the same name.
C6_MaterializedOnce ==
    \A j, k \in 1..Len(nodes) :
        (nodes[j].folder_name = nodes[k].folder_name /\ nodes[j].folder_name # Unset)
            => j = k

\* ----------------------------------------------------------------------- C7
\* C7: a call returns True exactly when every candidate row was materialized
\* without error.
C7_TrueIffAllMaterialized ==
    (Finished /\ has_df)
        => ((result = "True")
              <=> \A k \in 1..Len(df) : Candidate(minimal, k) => Materialized(k))

\* ----------------------------------------------------------------------- C8
\* C8: constructing a Folder under a name with a reserved character or a
\* reserved device name assigns no folder_name and creates no directory and
\* no README.
C8_InvalidNameNoEffect ==
    (last.seq > 0 /\ ~ValidName(last.folder_name))
        => /\ dirs = last.dirs
           /\ files = last.files
           /\ last.ref # None => nodes[last.ref].folder_name = Unset

C8_Witness ==
    /\ last.seq = 2
    /\ HasReservedName(last.folder_name) /\ ~HasReservedChar(last.folder_name)
    /\ last.readme_text # NoText
    /\ last.parent # None
    /\ nodes[last.parent].folder_name = RootMark
    /\ Len(nodes) = 2

\* ----------------------------------------------------------------------- C9
\* C9: every entry of the registry is a Folder whose construction passed the
\* name validation (it has a folder_name).
C9_RegistryValid ==
    \A key \in DOMAIN folder_tree : nodes[folder_tree[key]].folder_name # Unset

\* ---------------------------------------------------------------------- C10
\* the step after a failed top-level resolution: the call returns False and
\* touches neither the registry, the heap nor the file system
C10_StopsAtFailure ==
    (pc = "ret" /\ stack = <<>> /\ ~retval)
        => /\ pc' = "idle" /\ result' = "False" /\ i' = i
           /\ UNCHANGED <<folder_tree, nodes, dirs, files>>

\* after a failed first build: row i is the failed candidate, no name beyond
\* the chains of the earlier candidates is registered, and the earlier
\* candidates are all still registered
C10_KeptNoLater ==
    (FirstFinished /\ result = "False")
        => /\ i <= Len(df) /\ Candidate(minimal, i)
           /\ ~creation_success
           /\ \A key \in DOMAIN folder_tree :
                 \/ key = RootKey
                 \/ \E k \in 1..(i - 1) : Candidate(minimal, k) /\ OnChain(df, key, k)
           /\ \A k \in 1..(i - 1) :
                 Candidate(minimal, k) => df[k].folder_name \in DOMAIN folder_tree

\* C10: when the resolution of a candidate fails, create_project_tree returns
\* False at once and changes nothing more; on a fresh builder the registry
\* then holds exactly what the earlier candidates and their ancestors put
\* there, all earlier candidates included.
C10_AbortOnFirstFailure == [][C10_StopsAtFailure]_vars /\ []C10_KeptNoLater

C10_Witness ==
    /\ FirstFinished /\ result = "False"
    /\ i = 2 /\ Len(df) = 3
    /\ Cardinality(DOMAIN folder_tree) = 2
    /\ Cardinality(dirs) = 2
    /\ df[3].parent = RootKey

\* ---------------------------------------------------------------------- C11
\* C11: on a builder whose template was read, whatever the template holds,
\* every create_project_tree call ends by returning True or False; none ends
\* by raising an exception.
C11_BooleanResult ==
    (Finished /\ has_df) => result \in {"True", "False"}

\* ---------------------------------------------------------------------- C12
\* C12: a builder whose template file was missing reports the missing file
\* when it is constructed and is unusable from then on: no create_project_tree
\* call on it returns True (each one ends with the AttributeError of the
\* missing _df), and none registers a folder or creates a directory or a
\* file: the root entry of the constructor stays alone.
C12_MissingFileUnusable ==
    ~has_df =>
        /\ calls = 0 => Printed("file_not_found")
        /\ pc = "idle"
        /\ result \in {"none", "AttributeError"}
        /\ calls > 0 => result = "AttributeError"
        /\ n_folders = 1 /\ dirs = {RootMark} /\ files = {}

C12_Witness ==
    /\ ~has_df
    /\ calls = 2
    /\ result = "AttributeError"
    /\ n_folders = 1

\* ---------------------------------------------------------------------- C13
\* the rows data -> root, raw -> data, both in the minimal tree (a for data,
\* b for raw)
C13_Example ==
    /\ Len(df) = 2
    /\ df[1].folder_name = NameA /\ df[1].parent = RootKey /\ df[1].minimal
    /\ df[2].folder_name = NameB /\ df[2].parent = NameA /\ df[2].minimal

\* C13: every registered Folder with a valid name has a folder_path, and it is
\* '.' for the root object and the parent's folder_path, '/', folder_name for
\* any other; its directory exists under that path.  The minimal build of the
\* rows data -> root, raw -> data returns True with 3 registry entries and
\* the path './data/raw' for raw.
C13_PathIsJoinedChain ==
    /\ \A key \in DOMAIN folder_tree :
          LET n == nodes[folder_tree[key]]
          IN  n.folder_name # Unset =>
                /\ ~PathRaises(nodes, n)
                /\ folder_path(nodes, n) =
                      IF n.parent = None THEN RootMark
                      ELSE folder_path(nodes, nodes[n.parent])
                             \o <<"/">> \o n.folder_name
                /\ folder_path(nodes, n) \in dirs
    /\ (FirstFinished /\ has_df /\ minimal /\ C13_Example) =>
          /\ result = "True"
          /\ n_folders = 3
          /\ TreePaths[NameB] = <<".", "/", "a", "/", "b">>
          /\ TreePaths[NameA] = <<".", "/", "a">>
          /\ TreePaths[RootKey] = <<".">>

C13_Witness ==
    /\ FirstFinished /\ has_df /\ minimal /\ C13_Example
    /\ result = "True"
    /\ folder_path(nodes, nodes[folder_tree[NameB]]) = <<".", "/", "a", "/", "b">>

\* ---------------------------------------------------------------------- C14
\* C14: in every reachable state the registry has an entry under the key
\* 'root'; that entry is a Folder without parent whose folder_name is '.',
\* and every other entry is a Folder with a parent.
C14_SingleRoot ==
    /\ RootKey \in DOMAIN folder_tree
    /\ nodes[folder_tree[RootKey]].parent = None
    /\ nodes[folder_tree[RootKey]].folder_name = RootMark
    /\ \A key \in DOMAIN folder_tree \ {RootKey} :
          nodes[folder_tree[key]].parent # None

\* ---------------------------------------------------------------------- C15
\* a step that registers a new key finds the parent name of its row already
\* registered
C15_ParentBeforeChild ==
    \A key \in (DOMAIN folder_tree') \ (DOMAIN folder_tree) :
        /\ RowNamed(df, key)
        /\ df[RowOf(df, key)].parent \in DOMAIN folder_tree

\* every key but 'root' is the name of a row whose parent name is a key too,
\* and where the entry has a directory its parent object has one
C15_ParentClosed ==
    \A key \in DOMAIN folder_tree \ {RootKey} :
        /\ RowNamed(df, key)
        /\ df[RowOf(df, key)].parent \in DOMAIN folder_tree
        /\ LET n == nodes[folder_tree[key]]
           IN  n.folder_name # Unset =>
                 /\ folder_path(nodes, n) \in dirs
                 /\ folder_path(nodes, nodes[n.parent]) \in dirs

\* C15: a folder other than root is registered, and its directory created,
\* only after its parent; in every reachable state the registry is closed
\* under parent names.
C15_DependencySafe == [][C15_ParentBeforeChild]_vars /\ []C15_ParentClosed

C15_Witness ==
    /\ pc = "ret" /\ Len(stack) = 1 /\ retval
    /\ Len(df) = 3 /\ i = 1
    /\ df[1].parent = NameB /\ df[2].parent = NameC /\ df[3].parent = RootKey
    /\ DOMAIN folder_tree = {RootKey, NameC}

\* ---------------------------------------------------------------------- C16
\* the parent argument of the _check_parent_branch_exists call that has just
\* returned
ReturnedFor == IF stack = <<>> THEN df[i].parent ELSE df[Top.index].parent

\* C16: when a _check_parent_branch_exists call has returned True, its parent
\* argument is a key of the registry.
C16_TrueMeansRegistered ==
    (pc = "ret" /\ retval) => ReturnedFor \in DOMAIN folder_tree

\* ---------------------------------------------------------------------- C17
\* during the resolution of candidate i the explored list starts with the
\* candidate's name, holds no name twice and holds only names on the parent
\* chain of the candidate
C17_ExploredOfCandidate ==
    pc \in {"check", "ret"} =>
        /\ explored # <<>>
        /\ explored[1] = df[i].folder_name
        /\ \A j, k \in 1..Len(explored) : explored[j] = explored[k] => j = k
        /\ \A k \in 1..Len(explored) : OnChain(df, explored[k], i)

\* C17: the explored list is made anew for every candidate, so that it holds
\* only names met on the way up from the current candidate; a circular
\* reference is reported only when the parent chain of the current candidate
\* comes back to a name of that list.
C17_ExploredPerCandidate ==
    /\ C17_ExploredOfCandidate
    /\ Failing("circular_reference") =>
          /\ i <= Len(df)
          /\ CircularRow(df, i)
          /\ InList(out[Len(out)].name, explored)
          /\ OnChain(df, out[Len(out)].name, i)

C17_Witness ==
    /\ Finished /\ Failing("circular_reference")
    /\ i = 3
    /\ n_folders = 3
    /\ df[1].parent = df[2].folder_name
    /\ Len(explored) = 1

\* ---------------------------------------------------------------------- C18
\* the explored list holds distinct names of rows, and no more frames are
\* open than names are explored: the recursion is at most Len(df) deep
C18_Variant ==
    pc \in {"check", "ret"} =>
        /\ \A j, k \in 1..Len(explored) : explored[j] = explored[k] => j = k
        /\ \A k \in 1..Len(explored) : InList(explored[k], names)
        /\ Len(stack) <= Len(explored)
        /\ Len(explored) <= Len(df)
        /\ i <= Len(df)

\* C18: every create_project_tree call, and every _check_parent_branch_exists
\* call in it, comes to an end, also on templates with circular parent chains
\* and chains that never reach the root; the explored names are distinct
\* names of rows and bound the depth of the recursion.
C18_Terminates ==
    []C18_Variant /\ ((pc \in {"loop", "check", "ret"}) ~> (pc = "idle"))

C18_Witness ==
    /\ Finished /\ Failing("circular_reference")
    /\ Len(explored) = 3
    /\ Len(df) = 3
    /\ ~RowNamed(df, RootKey)
    /\ \A k \in 1..Len(df) : df[k].parent # RootKey

\* ---------------------------------------------------------------------- C19
\* C19: while a resolution is failing, when its top-level call has returned
\* False and when create_project_tree has returned False after it, registry,
\* Folder objects, directories and files are what they were when the
\* resolution of that candidate started.
C19_FailedResolutionPure ==
    ((pc = "ret" /\ ~retval) \/ (Finished /\ result = "False")) => before = Snap

C19_Witness ==
    /\ pc = "ret" /\ stack = <<>> /\ ~retval
    /\ Len(explored) = 2
    /\ i = 2
    /\ n_folders = 2
    /\ Printed("not_in_minimal_template")

\* ---------------------------------------------------------------------- C20
\* C20: on a builder on which every create_project_tree call so far was made
\* with minimal = True, every registry key but 'root' is the name of a row
\* whose minimal field is true, in every state, also after a failed build.
C20_OnlyMinimalRegistered ==
    only_minimal =>
        \A key \in DOMAIN folder_tree \ {RootKey} :
            /\ RowNamed(df, key)
            /\ df[RowOf(df, key)].minimal

C20_Witness ==
    /\ Finished /\ calls = 2 /\ only_minimal
    /\ result = "False"
    /\ Printed("not_in_minimal_template")
    /\ n_folders = 2

====
